---- MODULE Spec2Model ----
(***************************************************************************)
(* A model of the flat-file credential store of RADIUS-Bot                 *)
(* (src/bot/utils/radius.py, class RadiusManager).                         *)
(*                                                                         *)
(* Text.  A physical line of the authorize file is modelled by what the    *)
(* code looks at: whether it starts with a tab or a space (ind) and its    *)
(* whitespace-separated tokens (toks).  A token is a bare word or a        *)
(* double-quoted value; a quoted value keeps the words between the         *)
(* quotes.  Every line of a file ends with a newline.                      *)
(*                                                                         *)
(*   "alice\tNT-Password := \"H1\"\n"  hdr_line("alice", "H1")             *)
(*   "\tReply-Message := \"Welcome alice\"\n"   reply_line("alice")        *)
(*   "\n"                              blank_line                          *)
(*   " \n"                             ws_line (whitespace only, indented) *)
(*   "# note\n"                        note_line                           *)
(*   "\t# note\n"                      ind_note_line                       *)
(*   "alice\n"                         short_hdr("alice")                  *)
(*                                                                         *)
(* Usernames are tokens without whitespace, quotes or a leading '#' (the   *)
(* front end builds them as user_<id>, src/bot/app.py:105).  The time      *)
(* stamp of a history comment is the two words DATE TIME.                  *)
(***************************************************************************)
EXTENDS Integers, Sequences, FiniteSets, TLC

VARIABLES
    file,    \* the authorize file: [ex |-> exists, ls |-> its lines]
    tmp,     \* the sibling temporary file (authorize.tmp), same shape
    hist,    \* single call: the call made, with the file it found
    lock,    \* the RLock: [owner |-> thread or 0, count |-> hold count]
    th,      \* threads: per thread, its position and locals
    calls,   \* threads: calls started, calls ended, and the last one ended
    w        \* the writer of the write specification: position and locals

vars == <<file, tmp, hist, lock, th, calls, w>>

----------------------------------------------------------------------------
(* Bounds of the model *)

\* longest starting file of the sequential specification, in lines
MaxLen == 3

----------------------------------------------------------------------------
(* Text *)

Min(a, b) == IF a < b THEN a ELSE b

Word(x) == [q |-> FALSE, s |-> <<x>>]
Quoted(ws) == [q |-> TRUE, s |-> ws]

Users == {"al", "alice"}
Secrets == {"s1", "s2"}
None == "None"

hdr_line(u, h) ==
    [ind |-> FALSE, toks |-> <<Word(u), Word("NT-Password"), Word(":="), Quoted(<<h>>)>>]
reply_line(u) ==
    [ind |-> TRUE, toks |-> <<Word("Reply-Message"), Word(":="), Quoted(<<"Welcome", u>>)>>]
blank_line == [ind |-> FALSE, toks |-> <<>>]
ws_line == [ind |-> TRUE, toks |-> <<>>]
note_line == [ind |-> FALSE, toks |-> <<Word("#"), Word("note")>>]
ind_note_line == [ind |-> TRUE, toks |-> <<Word("#"), Word("note")>>]
short_hdr(u) == [ind |-> FALSE, toks |-> <<Word(u)>>]
added_line ==
    [ind |-> FALSE, toks |-> <<Word("#"), Word("User"), Word("added:"), Word("DATE"), Word("TIME")>>]
updated_line ==
    [ind |-> FALSE, toks |-> <<Word("#"), Word("Password"), Word("updated:"), Word("DATE"), Word("TIME")>>]

\* raw.startswith('\t') or raw.startswith(' ')
starts_indented(raw) == raw.ind
\* raw.strip(): leading and trailing whitespace removed
strip(raw) == [raw EXCEPT !.ind = FALSE]
\* stripped == ""
is_empty(stripped) == stripped.toks = <<>>
\* stripped.startswith('#')
starts_hash(stripped) == stripped.toks # <<>> /\ stripped.toks[1] = Word("#")

RECURSIVE flatten(_)
flatten(ss) == IF ss = <<>> THEN <<>> ELSE Head(ss) \o flatten(Tail(ss))

\* line.split(): the whitespace-separated parts; a quoted value of several
\* words falls into several parts
split(line) ==
    flatten([i \in 1..Len(line.toks) |->
        [j \in 1..Len(line.toks[i].s) |-> [q |-> line.toks[i].q, w |-> line.toks[i].s[j]]]])
\* 'NT-Password' in line
contains_word(line, x) == \E i \in 1..Len(line.toks) : line.toks[i] = Word(x)
\* line.split('"')[1] if '"' in line else "": the words of the first quoted value
RECURSIVE first_quoted(_)
first_quoted(toks) ==
    IF toks = <<>> THEN <<>>
    ELSE IF Head(toks).q THEN Head(toks).s ELSE first_quoted(Tail(toks))

\* re.compile(rf"^{re.escape(username)}\s").match(line): the line starts at
\* column 0 with the username followed by whitespace (the newline counts)
pattern_match(line, username) ==
    ~line.ind /\ line.toks # <<>> /\ line.toks[1] = Word(username)

----------------------------------------------------------------------------
(* _sanitize_lines *)

RECURSIVE sanitize_from(_, _, _, _, _)
sanitize_from(lines, i, sanitized, inside_header, prev_blank) ==
    IF i > Len(lines) THEN sanitized
    ELSE LET raw == lines[i] IN
         IF starts_indented(raw)
         THEN IF ~inside_header
              THEN sanitize_from(lines, i + 1, sanitized, inside_header, prev_blank)
              ELSE sanitize_from(lines, i + 1, Append(sanitized, raw), inside_header, FALSE)
         ELSE IF is_empty(strip(raw))
              THEN IF prev_blank
                   THEN sanitize_from(lines, i + 1, sanitized, inside_header, prev_blank)
                   ELSE sanitize_from(lines, i + 1, Append(sanitized, raw), FALSE, TRUE)
              ELSE sanitize_from(lines, i + 1, Append(sanitized, raw),
                                 ~starts_hash(strip(raw)), FALSE)

\* a sanitizer that drops the comment lines as well
sanitize_lines_uncommented(lines) ==
    SelectSeq(sanitize_from(lines, 1, <<>>, FALSE, FALSE), LAMBDA raw : ~starts_hash(strip(raw)))

\* a pass in which a dropped blank line ends the run of blank lines
RECURSIVE sanitize_from_pairs(_, _, _, _, _)
sanitize_from_pairs(lines, i, sanitized, inside_header, prev_blank) ==
    IF i > Len(lines) THEN sanitized
    ELSE LET raw == lines[i] IN
         IF starts_indented(raw)
         THEN IF ~inside_header
              THEN sanitize_from_pairs(lines, i + 1, sanitized, inside_header, prev_blank)
              ELSE sanitize_from_pairs(lines, i + 1, Append(sanitized, raw), inside_header, FALSE)
         ELSE IF is_empty(strip(raw))
              THEN IF prev_blank
                   THEN sanitize_from_pairs(lines, i + 1, sanitized, inside_header, FALSE)
                   ELSE sanitize_from_pairs(lines, i + 1, Append(sanitized, raw), FALSE, TRUE)
              ELSE sanitize_from_pairs(lines, i + 1, Append(sanitized, raw),
                                       ~starts_hash(strip(raw)), FALSE)
sanitize_lines_pairs(lines) == sanitize_from_pairs(lines, 1, <<>>, FALSE, FALSE)
\* a pass that starts as if a header had been read
sanitize_lines_inside(lines) == sanitize_from(lines, 1, <<>>, TRUE, FALSE)

sanitize_lines(lines) == sanitize_from(lines, 1, <<>>, FALSE, FALSE)

----------------------------------------------------------------------------
(* _find_user_blocks: (start, end) of every block of the user, 0-based,   *)
(* end exclusive                                                           *)

RECURSIVE block_end(_, _)
block_end(lines, j) ==
    IF j < Len(lines) /\ starts_indented(lines[j + 1]) THEN block_end(lines, j + 1) ELSE j

RECURSIVE find_from(_, _, _, _)
find_from(lines, username, i, blocks) ==
    IF i >= Len(lines) THEN blocks
    ELSE IF pattern_match(lines[i + 1], username)
         THEN LET j == block_end(lines, i + 1)
              IN find_from(lines, username, j, Append(blocks, <<i, j>>))
         ELSE find_from(lines, username, i + 1, blocks)

\* a variant that stops at the first block found
find_first_block(lines, username) ==
    LET all == find_from(lines, username, 0, <<>>)
    IN IF all = <<>> THEN <<>> ELSE <<all[1]>>

find_user_blocks(lines, username) == find_from(lines, username, 0, <<>>)

----------------------------------------------------------------------------
(* _parse_user_entry *)

NoEntry == [empty |-> TRUE, username |-> "", line_start |-> 0, line_end |-> 0,
            attributes |-> {}]

\* the header's secret attribute: NT-Password is looked for first
header_attributes(line) ==
    IF contains_word(line, "NT-Password")
    THEN {[name |-> "NT-Password", value |-> first_quoted(line.toks)]}
    ELSE IF contains_word(line, "Cleartext-Password")
         THEN {[name |-> "Cleartext-Password", value |-> first_quoted(line.toks)]}
         ELSE {}

\* the loop over the following lines: each is stripped before it is tested
\* for a leading tab or space
RECURSIVE absorb(_, _, _)
absorb(lines, next_idx, attrs) ==
    IF next_idx >= Len(lines) THEN [attrs |-> attrs, next |-> next_idx]
    ELSE LET next_line == strip(lines[next_idx + 1]) IN
         IF ~starts_indented(next_line) THEN [attrs |-> attrs, next |-> next_idx]
         ELSE absorb(lines, next_idx + 1,
                     IF contains_word(next_line, "Reply-Message")
                     THEN {a \in attrs : a.name # "Reply-Message"}
                          \cup {[name |-> "Reply-Message", value |-> first_quoted(next_line.toks)]}
                     ELSE attrs)

parse_user_entry(lines, start_idx) ==
    IF start_idx >= Len(lines) THEN [info |-> NoEntry, next |-> start_idx]
    ELSE LET raw_line == lines[start_idx + 1]
             line == strip(raw_line)
         IN IF starts_indented(raw_line) THEN [info |-> NoEntry, next |-> start_idx + 1]
            ELSE IF is_empty(line) \/ starts_hash(line)
                 THEN [info |-> NoEntry, next |-> start_idx + 1]
            ELSE IF Len(split(line)) < 3 THEN [info |-> NoEntry, next |-> start_idx + 1]
            ELSE LET parts == split(line)
                     a == absorb(lines, start_idx + 1, header_attributes(line))
                 IN [info |-> [empty |-> FALSE,
                               username |-> parts[1].w,
                               line_start |-> start_idx,
                               line_end |-> a.next - 1,
                               attributes |-> a.attrs],
                     next |-> a.next]

\* the scan of get_user over the lines read
RECURSIVE get_from(_, _, _)
get_from(lines, username, i) ==
    IF i >= Len(lines) THEN NoEntry
    ELSE LET p == parse_user_entry(lines, i) IN
         IF ~p.info.empty /\ p.info.username = username THEN p.info
         ELSE get_from(lines, username, p.next)

\* a scan that ends at the first line that gives no record
RECURSIVE list_from_until(_, _, _)
list_from_until(lines, i, entries) ==
    IF i >= Len(lines) THEN entries
    ELSE LET p == parse_user_entry(lines, i) IN
         IF p.info.empty THEN entries
         ELSE list_from_until(lines, p.next, Append(entries, p.info))

\* the scan of list_users over the lines read
RECURSIVE list_from(_, _, _)
list_from(lines, i, entries) ==
    IF i >= Len(lines) THEN entries
    ELSE LET p == parse_user_entry(lines, i) IN
         list_from(lines, p.next, IF p.info.empty THEN entries ELSE Append(entries, p.info))

----------------------------------------------------------------------------
(* The file system and the credential generator *)

NoFile == [ex |-> FALSE, ls |-> <<>>]
FileOf(ls) == [ex |-> TRUE, ls |-> ls]

\* _read_authorize_file: readlines gives one element per line; an absent
\* file reads as the empty list
read_authorize_file(f) == IF f.ex THEN f.ls ELSE <<>>

\* writelines followed by a later readlines: the elements are concatenated
\* and the text is cut again after every newline, so an element that holds
\* two newlines comes back as two lines
writelines(elems) == flatten(elems)
\* the elements of a list that readlines returned: one line each
as_elements(lines) == [i \in 1..Len(lines) |-> <<lines[i]>>]

\* PasswordManager.generate_nt_hash on the secrets of the model: MD4 of the
\* UTF-16LE bytes, in upper-case hex, is a fixed value per secret
generate_nt_hash(password) == IF password = "s1" THEN "H1" ELSE "H2"
\* PasswordManager.generate_user_credentials, for the secret the random
\* source produced
generate_user_credentials(gen) == [password |-> gen, nt_hash |-> generate_nt_hash(gen)]
\* the generator raises when it is asked (no MD4 backend): gen is Raises,
\* and the caller gets GeneratorError in place of credentials
Raises == "raises"
GeneratorError == [password |-> Raises, nt_hash |-> Raises]

----------------------------------------------------------------------------
(* get_user, list_users, add_user, update_user_password, delete_user as   *)
(* functions of the file they find                                         *)

\* a lookup that gives up after the first line of the file
get_user_first_line(f, username) ==
    LET p == parse_user_entry(read_authorize_file(f), 0) IN
    IF ~p.info.empty /\ p.info.username = username THEN p.info ELSE NoEntry
get_user(f, username) == get_from(read_authorize_file(f), username, 0)
list_users(f) == list_from(read_authorize_file(f), 0, <<>>)

\* add_user, lines 349-353: which credentials are stored
add_credentials(password, nt_hash, gen) ==
    IF password = None
    THEN IF gen = Raises THEN GeneratorError ELSE generate_user_credentials(gen)
    ELSE IF nt_hash = None
         THEN IF gen = Raises THEN GeneratorError
              ELSE [password |-> password, nt_hash |-> generate_nt_hash(password)]
         ELSE [password |-> password, nt_hash |-> nt_hash]

\* a variant that writes the hash without its quotes
add_entry_unquoted(username, nt_hash) ==
    << <<blank_line, added_line>>,
       <<[ind |-> FALSE,
          toks |-> <<Word(username), Word("NT-Password"), Word(":="), Word(nt_hash)>>]>>,
       <<reply_line(username), blank_line>> >>

\* add_user, lines 361-365: three elements, the first and the last of two
\* lines each
add_entry(username, nt_hash) ==
    << <<blank_line, added_line>>,
       <<hdr_line(username, nt_hash)>>,
       <<reply_line(username), blank_line>> >>

\* add_user, lines 356-371: the elements handed to the writer
add_lines(f, username, nt_hash) ==
    as_elements(sanitize_lines(read_authorize_file(f))) \o add_entry(username, nt_hash)

\* the backward walk over blank and comment lines before a block
RECURSIVE walk_back(_, _)
walk_back(lines, s) ==
    IF s > 0 /\ (is_empty(strip(lines[s])) \/ starts_hash(strip(lines[s])))
    THEN walk_back(lines, s - 1)
    ELSE s

adjust(lines, blocks) ==
    [k \in 1..Len(blocks) |-> <<walk_back(lines, blocks[k][1]), blocks[k][2]>>]

\* sorted(adjusted, key=lambda x: x[0], reverse=True): a stable sort, so
\* among equal starts the later element of the list comes first
RECURSIVE sort_desc(_)
sort_desc(adjusted) ==
    IF adjusted = <<>> THEN <<>>
    ELSE LET top == CHOOSE k \in 1..Len(adjusted) :
                        \A m \in 1..Len(adjusted) :
                            \/ adjusted[m][1] < adjusted[k][1]
                            \/ (adjusted[m][1] = adjusted[k][1] /\ m <= k)
         IN <<adjusted[top]>>
            \o sort_desc(SubSeq(adjusted, 1, top - 1) \o SubSeq(adjusted, top + 1, Len(adjusted)))

\* del lines[s:e]
del_slice(lines, s, e) ==
    LET n == Len(lines)
        lo == Min(s, n)
        hi == Min(e, n)
    IN IF hi <= lo THEN lines ELSE SubSeq(lines, 1, lo) \o SubSeq(lines, hi + 1, n)

RECURSIVE del_all(_, _)
del_all(lines, ranges) ==
    IF ranges = <<>> THEN lines
    ELSE del_all(del_slice(lines, Head(ranges)[1], Head(ranges)[2]), Tail(ranges))

\* the block removal shared by update_user_password (415-429) and
\* delete_user (483-496)
remove_blocks(lines, blocks) == del_all(lines, sort_desc(adjust(lines, blocks)))

\* update_user_password, lines 433-438
update_entry(username, new_nt_hash) ==
    << <<updated_line>>, <<hdr_line(username, new_nt_hash)>>,
       <<reply_line(username)>>, <<blank_line>> >>

\* update_user_password, lines 404-409
update_credentials(new_password, gen) ==
    IF gen = Raises THEN GeneratorError
    ELSE IF new_password = None THEN generate_user_credentials(gen)
    ELSE [password |-> new_password, nt_hash |-> generate_nt_hash(new_password)]

\* a variant that appends the fresh block and keeps the old ones
update_lines_append(f, username, new_nt_hash) ==
    LET lines == sanitize_lines(read_authorize_file(f))
    IN as_elements(sanitize_lines(lines \o flatten(update_entry(username, new_nt_hash))))

\* update_user_password, lines 411-445: the elements handed to the writer
update_lines(f, username, new_nt_hash) ==
    LET lines == sanitize_lines(read_authorize_file(f))
        blocks == find_user_blocks(lines, username)
        kept == IF blocks # <<>> THEN remove_blocks(lines, blocks) ELSE lines
    IN as_elements(sanitize_lines(kept \o flatten(update_entry(username, new_nt_hash))))

\* delete_user, lines 470-502: the elements handed to the writer
delete_lines(f, username) ==
    LET lines == sanitize_lines(read_authorize_file(f))
        blocks == find_user_blocks(lines, username)
    IN as_elements(sanitize_lines(remove_blocks(lines, blocks)))

----------------------------------------------------------------------------
(* _write_authorize_file, step by step, on the two files it touches:      *)
(* fs = [target |-> the authorize file, temp |-> authorize.tmp]            *)

\* open(temp_file, 'w'): the temporary file is created or truncated
\* a writer that opens the target itself for writing
open_temp_on_target(fs) == [fs EXCEPT !.target = FileOf(<<>>)]
\* a writer whose lines go to the target as they are written
write_temp_in_place(fs, elem) ==
    [fs EXCEPT !.target = FileOf((IF fs.target.ex THEN fs.target.ls ELSE <<>>) \o flatten(<<elem>>))]
open_temp(fs) == [fs EXCEPT !.temp = FileOf(<<>>)]
\* tmpf.writelines(lines), one element reaching the file
write_temp(fs, elem) == [fs EXCEPT !.temp = FileOf(fs.temp.ls \o writelines(<<elem>>))]
\* temp_file.replace(self.authorize_file_path): the rename
replace(fs) == [target |-> fs.temp, temp |-> NoFile]
\* a fallback that opens the target without truncating it
open_target_keeping(fs) ==
    [fs EXCEPT !.target = IF fs.target.ex THEN fs.target ELSE FileOf(<<>>)]
\* open(self.authorize_file_path, 'w') of the EBUSY fallback
open_target(fs) == [fs EXCEPT !.target = FileOf(<<>>)]
\* wf.writelines(lines) of the fallback, one element reaching the file
write_target(fs, elem) == [fs EXCEPT !.target = FileOf(fs.target.ls \o writelines(<<elem>>))]
\* if temp_file.exists(): temp_file.unlink()
unlink_temp(fs) == [fs EXCEPT !.temp = NoFile]

RECURSIVE write_all_temp(_, _)
write_all_temp(fs, elems) ==
    IF elems = <<>> THEN fs ELSE write_all_temp(write_temp(fs, Head(elems)), Tail(elems))

\* the writer when every step succeeds (lines 73-91)
write_ok(fs, elems) == replace(write_all_temp(open_temp(fs), elems))

Fs == [target |-> file, temp |-> tmp]
\* the file system after a step
Becomes(fs) == file' = fs.target /\ tmp' = fs.temp

----------------------------------------------------------------------------
(* The public calls, each from taking the lock to the return, when the    *)
(* write succeeds on the rename path.  A call gives the file system it     *)
(* leaves and what the caller gets: kind is the return or the exception.   *)

Outcome(fs, kind, password, nt_hash, entries, wrote) ==
    [fs |-> fs, kind |-> kind, password |-> password, nt_hash |-> nt_hash,
     entries |-> entries, wrote |-> wrote]

\* get_user: the record, or None
call_get(fs, username) ==
    LET info == get_user(fs.target, username)
    IN Outcome(fs, IF info.empty THEN "none" ELSE "found", None, None,
               IF info.empty THEN <<>> ELSE <<info>>, FALSE)

\* a list that writes the sanitized lines back before it parses
call_list_sanitizing(fs) ==
    Outcome(write_ok(fs, as_elements(sanitize_lines(read_authorize_file(fs.target)))),
            "entries", None, None, list_users(fs.target), FALSE)

\* list_users
call_list(fs) == Outcome(fs, "entries", None, None, list_users(fs.target), FALSE)

\* add_user: ValueError "already exists", or (password, nt_hash)
call_add(fs, username, a) ==
    IF ~get_user(fs.target, username).empty
    THEN Outcome(fs, "duplicate", None, None, <<>>, FALSE)
    ELSE LET c == add_credentials(a.password, a.nt_hash, a.gen)
         IN IF c = GeneratorError
            THEN Outcome(fs, "generator_error", None, None, <<>>, FALSE)
            ELSE Outcome(write_ok(fs, add_lines(fs.target, username, c.nt_hash)),
                         "ok", c.password, c.nt_hash, <<>>, TRUE)

\* update_user_password: ValueError "not found", or (new_password, new_nt_hash)
call_update(fs, username, a) ==
    IF get_user(fs.target, username).empty
    THEN Outcome(fs, "not_found", None, None, <<>>, FALSE)
    ELSE LET c == update_credentials(a.password, a.gen)
         IN IF c = GeneratorError
            THEN Outcome(fs, "generator_error", None, None, <<>>, FALSE)
            ELSE Outcome(write_ok(fs, update_lines(fs.target, username, c.nt_hash)),
                         "ok", c.password, c.nt_hash, <<>>, TRUE)

\* a delete that rewrites the sanitized file when it finds nothing
call_delete_sanitizing(fs, username) ==
    IF \/ get_user(fs.target, username).empty
       \/ find_user_blocks(sanitize_lines(read_authorize_file(fs.target)), username) = <<>>
    THEN Outcome(write_ok(fs, as_elements(sanitize_lines(read_authorize_file(fs.target)))),
                 "false", None, None, <<>>, FALSE)
    ELSE Outcome(write_ok(fs, delete_lines(fs.target, username)), "true", None, None, <<>>, TRUE)

\* delete_user: False when get_user finds nothing or no block is found, else True
call_delete(fs, username) ==
    IF \/ get_user(fs.target, username).empty
       \/ find_user_blocks(sanitize_lines(read_authorize_file(fs.target)), username) = <<>>
    THEN Outcome(fs, "false", None, None, <<>>, FALSE)
    ELSE Outcome(write_ok(fs, delete_lines(fs.target, username)), "true", None, None, <<>>, TRUE)

call(fs, op, username, a) ==
    CASE op = "get" -> call_get(fs, username)
      [] op = "list" -> call_list(fs)
      [] op = "add" -> call_add(fs, username, a)
      [] op = "update" -> call_update(fs, username, a)
      [] op = "delete" -> call_delete(fs, username)

----------------------------------------------------------------------------
(* The store called once, on any starting file, or add_user called twice  *)
(* in a row for one name: hist holds the calls made, each with the file it *)
(* found.  Other sequences of calls are the subject of the threads         *)
(* specification below.                                                    *)

\* lines a starting file is made of
StartLines ==
    {hdr_line(u, "H0") : u \in Users}
    \cup {short_hdr("al"), reply_line("al"), blank_line, note_line, ind_note_line}

StartFiles ==
    {NoFile} \cup {FileOf(ls) : ls \in UNION {[1..n -> StartLines] : n \in 0..MaxLen}}

\* arguments of add_user: password and nt_hash, either may be left out; gen
\* is the secret the generator produces when it is asked
AddInputs ==
    {[password |-> None, nt_hash |-> None, gen |-> g] : g \in Secrets}
    \cup {[password |-> "s1", nt_hash |-> None, gen |-> "s2"],
          [password |-> "s1", nt_hash |-> "H2", gen |-> "s2"],
          [password |-> None, nt_hash |-> "H1", gen |-> "s2"],
          [password |-> None, nt_hash |-> None, gen |-> Raises],
          [password |-> "s1", nt_hash |-> None, gen |-> Raises]}

\* arguments of update_user_password: password is new_password
UpdateInputs ==
    {[password |-> None, nt_hash |-> None, gen |-> g] : g \in Secrets}
    \cup {[password |-> "s1", nt_hash |-> None, gen |-> "s2"],
          [password |-> None, nt_hash |-> None, gen |-> Raises],
          [password |-> "s1", nt_hash |-> None, gen |-> Raises]}

NoInput == [password |-> None, nt_hash |-> None, gen |-> "s1"]

Unused == UNCHANGED <<lock, th, calls, w>>

\* the effect of a call of the sequential store, recorded with its arguments
\* and the file it found
Returns(r, op, username, a) ==
    /\ file' = r.fs.target
    /\ tmp' = r.fs.temp
    /\ hist' = Append(hist, [op |-> op, user |-> username, args |-> a, kind |-> r.kind,
                             password |-> r.password, nt_hash |-> r.nt_hash,
                             entries |-> r.entries, before |-> file, wrote |-> r.wrote])

GetUser(username) ==
    /\ hist = <<>>
    /\ Returns(call_get(Fs, username), "get", username, NoInput)
    /\ Unused

ListUsers ==
    /\ hist = <<>>
    /\ Returns(call_list(Fs), "list", None, NoInput)
    /\ Unused

AddUser(username, a) ==
    /\ hist = <<>>
    /\ Returns(call_add(Fs, username, a), "add", username, a)
    /\ Unused

\* add_user called again for the name it was just called for
AddUserAgain(username, a) ==
    /\ Len(hist) = 1
    /\ hist[1].op = "add" /\ hist[1].user = username
    /\ Returns(call_add(Fs, username, a), "add", username, a)
    /\ Unused

UpdateUserPassword(username, a) ==
    /\ hist = <<>>
    /\ Returns(call_update(Fs, username, a), "update", username, a)
    /\ Unused

DeleteUser(username) ==
    /\ hist = <<>>
    /\ Returns(call_delete(Fs, username), "delete", username, NoInput)
    /\ Unused

\* the writer at rest: nothing is being written
Idle ==
    [pc |-> "idle", op |-> None, user |-> None, pre |-> NoFile, elems |-> <<>>, n |-> 0,
     fallback |-> FALSE, failed |-> FALSE, at |-> None, seen |-> <<>>]
NoCalls == [started |-> 0, ended |-> 0]
Unlocked == [owner |-> 0, count |-> 0]

Init ==
    /\ file \in StartFiles
    /\ tmp = NoFile
    /\ hist = <<>>
    /\ lock = Unlocked
    /\ th = <<>>
    /\ calls = NoCalls
    /\ w = Idle

Next ==
    \/ \E u \in Users : GetUser(u)
    \/ ListUsers
    \/ \E u \in Users, a \in AddInputs : AddUser(u, a)
    \/ \E u \in Users, a \in AddInputs : AddUserAgain(u, a)
    \/ \E u \in Users, a \in UpdateInputs : UpdateUserPassword(u, a)
    \/ \E u \in Users : DeleteUser(u)

Spec == Init /\ [][Next]_vars

----------------------------------------------------------------------------
(* Threads of one process on one RadiusManager: every public call takes   *)
(* self._lock (an RLock), the mutating calls take it again inside their    *)
(* nested get_user.  A step is what a thread does between two points where *)
(* another thread can run: taking a lock, reading the file, writing it.    *)
(* The write is the rename path: it replaces the file at once, or fails    *)
(* with an OSError other than EBUSY and leaves the file as it was.         *)

\* threads of the process
NumThreads == 2
\* calls started in one behaviour
MaxOps == 3

Threads == 1..NumThreads

\* the secret the generator produces in a thread
gen_of(t) == IF t = 1 THEN "s1" ELSE "s2"
InputOf(t) == [password |-> None, nt_hash |-> None, gen |-> gen_of(t)]

\* threading.RLock: acquire blocks while another thread owns the lock
\* a lock that never blocks
can_acquire_always(lk, t) == TRUE
\* a lock that is not re-entrant: its owner waits for it too
can_acquire_unowned(lk, t) == lk.owner = 0
can_acquire(lk, t) == lk.owner = 0 \/ lk.owner = t
acquire(lk, t) == [owner |-> t, count |-> lk.count + 1]
\* a lock without a count: the first release frees it
release_at_once(lk) == Unlocked
release(lk) == IF lk.count <= 1 THEN Unlocked ELSE [lk EXCEPT !.count = @ - 1]

ThreadIdle ==
    [pc |-> "idle", op |-> None, user |-> None, elems |-> <<>>, kind |-> None,
     password |-> None, nt_hash |-> None, entries |-> <<>>, wrote |-> FALSE,
     snap |-> NoFile, overlap |-> FALSE]

NoLast == [op |-> None, user |-> None, kind |-> None, absent |-> FALSE]
NoThreadCalls == [started |-> 0, ended |-> 0, last |-> NoLast]

Running(t) == th[t].pc \notin {"idle", "returned"}

\* add_user(username) is under way in thread t
Adding(t, username) == Running(t) /\ th[t].op = "add" /\ th[t].user = username

\* a thread calls get_user, list_users, add_user, update_user_password or
\* delete_user; overlap notes, of an add_user, that an add_user of the same
\* name was under way in another thread during the call
TCall(t, op, username) ==
    /\ ~Running(t)
    /\ calls.started < MaxOps
    /\ th' = [x \in Threads |->
                IF x = t
                THEN [ThreadIdle EXCEPT
                        !.pc = "lock", !.op = op, !.user = username,
                        !.overlap = op = "add" /\ \E y \in Threads \ {t} : Adding(y, username)]
                ELSE IF op = "add" /\ Adding(x, username)
                     THEN [th[x] EXCEPT !.overlap = TRUE]
                     ELSE th[x]]
    /\ calls' = [calls EXCEPT !.started = @ + 1]
    /\ UNCHANGED <<file, tmp, hist, lock, w>>

\* with self._lock: of the public call
TLock(t) ==
    /\ th[t].pc = "lock"
    /\ can_acquire(lock, t)
    /\ lock' = acquire(lock, t)
    /\ th' = [th EXCEPT ![t].pc = IF th[t].op \in {"get", "list"} THEN "read" ELSE "check",
                        ![t].snap = file]
    /\ UNCHANGED <<file, tmp, hist, calls, w>>

\* the body of get_user or list_users
TRead(t) ==
    /\ th[t].pc = "read"
    /\ LET r == IF th[t].op = "get" THEN call_get(Fs, th[t].user) ELSE call_list(Fs)
       IN th' = [th EXCEPT ![t].pc = "unlock", ![t].kind = r.kind, ![t].entries = r.entries]
    /\ UNCHANGED <<file, tmp, hist, lock, calls, w>>

\* with self._lock: of the nested get_user (lines 346, 399, 466)
TCheckLock(t) ==
    /\ th[t].pc = "check"
    /\ can_acquire(lock, t)
    /\ lock' = acquire(lock, t)
    /\ th' = [th EXCEPT ![t].pc = "check_read"]
    /\ UNCHANGED <<file, tmp, hist, calls, w>>

\* the nested get_user reads, returns and leaves its with block; the caller
\* raises or returns at once, or goes on to its edit
TCheckRead(t) ==
    /\ th[t].pc = "check_read"
    /\ lock' = release(lock)
    /\ LET found == ~get_user(file, th[t].user).empty
       IN th' = [th EXCEPT
                   ![t].pc = IF (th[t].op = "add") = found THEN "unlock" ELSE "edit",
                   ![t].kind = IF th[t].op = "add" /\ found THEN "duplicate"
                               ELSE IF th[t].op = "update" /\ ~found THEN "not_found"
                               ELSE IF th[t].op = "delete" /\ ~found THEN "false"
                               ELSE None]
    /\ UNCHANGED <<file, tmp, hist, calls, w>>

\* credentials, second read of the file, sanitize and edit
TEdit(t) ==
    /\ th[t].pc = "edit"
    /\ LET c == IF th[t].op = "add"
                THEN add_credentials(None, None, gen_of(t))
                ELSE update_credentials(None, gen_of(t))
           no_blocks == find_user_blocks(sanitize_lines(read_authorize_file(file)),
                                         th[t].user) = <<>>
       IN th' = IF th[t].op = "delete" /\ no_blocks
                THEN [th EXCEPT ![t].pc = "unlock", ![t].kind = "false"]
                ELSE [th EXCEPT
                        ![t].pc = "write",
                        ![t].password = IF th[t].op = "delete" THEN None ELSE c.password,
                        ![t].nt_hash = IF th[t].op = "delete" THEN None ELSE c.nt_hash,
                        ![t].elems =
                            CASE th[t].op = "add" -> add_lines(file, th[t].user, c.nt_hash)
                              [] th[t].op = "update" -> update_lines(file, th[t].user, c.nt_hash)
                              [] th[t].op = "delete" -> delete_lines(file, th[t].user)]
    /\ UNCHANGED <<file, tmp, hist, lock, calls, w>>

\* _write_authorize_file succeeds
TWrite(t) ==
    /\ th[t].pc = "write"
    /\ Becomes(write_ok(Fs, th[t].elems))
    /\ th' = [th EXCEPT ![t].pc = "unlock", ![t].wrote = TRUE,
                        ![t].kind = IF th[t].op = "delete" THEN "true" ELSE "ok"]
    /\ UNCHANGED <<hist, lock, calls, w>>

\* _write_authorize_file raises an OSError other than EBUSY before the
\* rename took place: the temporary file is removed, the exception goes up
TWriteFails(t) ==
    /\ th[t].pc = "write"
    /\ Becomes(unlink_temp(Fs))
    /\ th' = [th EXCEPT ![t].pc = "unlock", ![t].wrote = TRUE, ![t].kind = "io_error",
                        ![t].password = None, ![t].nt_hash = None]
    /\ UNCHANGED <<hist, lock, calls, w>>

\* the with block of the public call is left, by return or by exception; of
\* an add_user the thread keeps what it returned or raised, and calls.last
\* keeps the call that left last when it was an add_user
TUnlock(t) ==
    /\ th[t].pc = "unlock"
    /\ lock' = release(lock)
    /\ th' = [th EXCEPT ![t] = IF th[t].op = "add"
                                THEN [ThreadIdle EXCEPT
                                        !.pc = "returned", !.op = "add", !.user = th[t].user,
                                        !.kind = th[t].kind, !.overlap = th[t].overlap]
                                ELSE [ThreadIdle EXCEPT !.pc = "returned"]]
    /\ calls' = [calls EXCEPT
                   !.ended = @ + 1,
                   !.last = IF th[t].op = "add"
                            THEN [op |-> "add", user |-> th[t].user, kind |-> th[t].kind,
                                  absent |-> get_user(th[t].snap, th[t].user).empty]
                            ELSE NoLast]
    /\ UNCHANGED <<file, tmp, hist, w>>

InitThreads ==
    /\ file \in {NoFile, FileOf(<<>>)}
    /\ tmp = NoFile
    /\ hist = <<>>
    /\ lock = Unlocked
    /\ th = [t \in Threads |-> ThreadIdle]
    /\ calls = NoThreadCalls
    /\ w = Idle

NextThreads ==
    \/ \E t \in Threads, u \in Users :
           \E op \in {"get", "add", "update", "delete"} : TCall(t, op, u)
    \/ \E t \in Threads : TCall(t, "list", None)
    \/ \E t \in Threads : TLock(t)
    \/ \E t \in Threads : TRead(t)
    \/ \E t \in Threads : TCheckLock(t)
    \/ \E t \in Threads : TCheckRead(t)
    \/ \E t \in Threads : TEdit(t)
    \/ \E t \in Threads : TWrite(t)
    \/ \E t \in Threads : TWriteFails(t)
    \/ \E t \in Threads : TUnlock(t)

SpecThreads == InitThreads /\ [][NextThreads]_vars

\* the steps of a call that wait for the lock
Acquire(t) == TLock(t) \/ TCheckLock(t)

\* the steps of a call that wait for nothing: reading, editing, writing
\* and leaving the with block
Proceed(t) ==
    \/ TRead(t) \/ TCheckRead(t) \/ TEdit(t)
    \/ TWrite(t) \/ TWriteFails(t) \/ TUnlock(t)

\* a step of Proceed(t) is possible: this is ENABLED <<Proceed(t)>>_vars,
\* every step of a call moving pc
CanProceed(t) == th[t].pc \in {"read", "check_read", "edit", "write", "unlock"}

\* file I/O and computation end: WF_vars(Proceed(t)), with its ENABLED
\* written as CanProceed(t)
Terminating(t) == []<>~CanProceed(t) \/ []<><<Proceed(t)>>_vars

\* the threads under a fair scheduler, with file I/O that ends: a thread
\* that waits for a lock that is free or its own gets it, and a thread
\* inside a call goes on.  Calls are made or not, as the callers please.
SpecThreadsFair ==
    /\ InitThreads
    /\ [][NextThreads]_vars
    /\ \A t \in Threads : WF_vars(Acquire(t)) /\ Terminating(t)

----------------------------------------------------------------------------
(* One write of _write_authorize_file, statement by statement, as a reader *)
(* outside the process sees it: add_user, update_user_password or          *)
(* delete_user has edited the lines and calls the writer.  Every statement *)
(* that touches the file system can raise an OSError, with errno EBUSY or  *)
(* with another errno, and the process can be killed between any two       *)
(* statements.  writelines reaches the disk one element at a time.         *)

\* the files a write starts from: blocks of the users and blank lines
WriteStartFiles ==
    {NoFile} \cup {FileOf(ls) : ls \in UNION {[1..n -> {hdr_line(u, "H0") : u \in Users}
                                                         \cup {blank_line}] : n \in 0..MaxLen}}

\* the target file once elems are written in full
Written(elems) == FileOf(writelines(elems))

\* the lines the call hands to the writer
edited(f, op, username) ==
    CASE op = "add" -> add_lines(f, username, generate_user_credentials("s1").nt_hash)
      [] op = "update" -> update_lines(f, username, generate_user_credentials("s2").nt_hash)
      [] op = "delete" -> delete_lines(f, username)

\* the call reaches its write on the file as it is
WBegin(op, username) ==
    /\ w.pc = "idle"
    /\ call(Fs, op, username, NoInput).wrote
    /\ w' = [Idle EXCEPT !.pc = "open_temp", !.op = op, !.user = username, !.pre = file,
                         !.elems = edited(file, op, username)]
    /\ UNCHANGED <<file, tmp, hist, lock, th, calls>>

\* open(temp_file, 'w')
WOpenTemp ==
    /\ w.pc = "open_temp"
    /\ Becomes(open_temp(Fs))
    /\ w' = [w EXCEPT !.pc = IF w.elems = <<>> THEN "replace" ELSE "write_temp"]
    /\ UNCHANGED <<hist, lock, th, calls>>

\* tmpf.writelines(lines), one element, and the close after the last
WWriteTemp ==
    /\ w.pc = "write_temp"
    /\ Becomes(write_temp(Fs, w.elems[w.n + 1]))
    /\ w' = [w EXCEPT !.n = @ + 1,
                      !.pc = IF w.n + 1 = Len(w.elems) THEN "replace" ELSE "write_temp"]
    /\ UNCHANGED <<hist, lock, th, calls>>

\* temp_file.replace(self.authorize_file_path)
WReplace ==
    /\ w.pc = "replace"
    /\ Becomes(replace(Fs))
    /\ w' = [w EXCEPT !.pc = "done"]
    /\ UNCHANGED <<hist, lock, th, calls>>

\* a statement of the try block raises OSError: EBUSY leads to the direct
\* write, any other errno to the removal of the temporary file
WRaise(errno) ==
    /\ w.pc \in {"open_temp", "write_temp", "replace"}
    /\ w' = [w EXCEPT !.pc = IF errno = "EBUSY" THEN "direct_open" ELSE "cleanup",
                      !.fallback = errno = "EBUSY", !.n = 0]
    /\ UNCHANGED <<file, tmp, hist, lock, th, calls>>

\* if temp_file.exists(): temp_file.unlink(), then raise
WCleanup ==
    /\ w.pc = "cleanup"
    /\ Becomes(unlink_temp(Fs))
    /\ w' = [w EXCEPT !.pc = "raised"]
    /\ UNCHANGED <<hist, lock, th, calls>>

\* open(self.authorize_file_path, 'w') of the direct write
WDirectOpen ==
    /\ w.pc = "direct_open"
    /\ Becomes(open_target(Fs))
    /\ w' = [w EXCEPT !.pc = IF w.elems = <<>> THEN "finally" ELSE "direct_write"]
    /\ UNCHANGED <<hist, lock, th, calls>>

\* wf.writelines(lines), one element, and the close after the last
WDirectWrite ==
    /\ w.pc = "direct_write"
    /\ Becomes(write_target(Fs, w.elems[w.n + 1]))
    /\ w' = [w EXCEPT !.n = @ + 1,
                      !.pc = IF w.n + 1 = Len(w.elems) THEN "finally" ELSE "direct_write"]
    /\ UNCHANGED <<hist, lock, th, calls>>

\* a statement of the direct write raises OSError: the finally clause runs
\* and the exception goes up
WDirectRaise ==
    /\ w.pc \in {"direct_open", "direct_write"}
    /\ w' = [w EXCEPT !.pc = "finally", !.failed = TRUE]
    /\ UNCHANGED <<file, tmp, hist, lock, th, calls>>

\* finally: if temp_file.exists(): temp_file.unlink(missing_ok=True)
WFinally ==
    /\ w.pc = "finally"
    /\ Becomes(unlink_temp(Fs))
    /\ w' = [w EXCEPT !.pc = IF w.failed THEN "raised" ELSE "done"]
    /\ UNCHANGED <<hist, lock, th, calls>>

\* unlink raises OSError in either place: the temporary file stays
WUnlinkRaise ==
    /\ w.pc \in {"cleanup", "finally"}
    /\ tmp.ex
    /\ w' = [w EXCEPT !.pc = "raised", !.failed = TRUE]
    /\ UNCHANGED <<file, tmp, hist, lock, th, calls>>

\* the process is killed; at is the statement it was about to run
WCrash ==
    /\ w.pc \notin {"idle", "done", "raised", "crashed", "read"}
    /\ w' = [w EXCEPT !.pc = "crashed", !.at = w.pc]
    /\ UNCHANGED <<file, tmp, hist, lock, th, calls>>

\* the next list_users, of a new process after a kill
WReadAfter ==
    /\ w.pc \in {"done", "raised", "crashed"}
    /\ w' = [w EXCEPT !.pc = "read", !.at = IF w.pc = "crashed" THEN w.at ELSE w.pc,
                      !.seen = list_users(file)]
    /\ UNCHANGED <<file, tmp, hist, lock, th, calls>>

InitWrite ==
    /\ file \in WriteStartFiles
    /\ tmp = NoFile
    /\ hist = <<>>
    /\ lock = Unlocked
    /\ th = <<>>
    /\ calls = NoCalls
    /\ w = Idle

NextWrite ==
    \/ \E u \in Users, op \in {"add", "update", "delete"} : WBegin(op, u)
    \/ WOpenTemp
    \/ WWriteTemp
    \/ WReplace
    \/ \E errno \in {"EBUSY", "EIO"} : WRaise(errno)
    \/ WCleanup
    \/ WDirectOpen
    \/ WDirectWrite
    \/ WDirectRaise
    \/ WFinally
    \/ WUnlinkRaise
    \/ WCrash
    \/ WReadAfter

SpecWrite == InitWrite /\ [][NextWrite]_vars

----------------------------------------------------------------------------
(* The sanitizer applied to any line sequence: sanitize_file reads the     *)
(* file, runs _sanitize_lines and writes the result when it differs.  It   *)
(* is called on the starting file and once more on the file it left.       *)

\* lines of every kind the sanitizer tells apart: header, comment, blank,
\* whitespace-only, indented attribute, indented comment
SanitizeLines ==
    {hdr_line("al", "H0"), note_line, blank_line, ws_line, reply_line("al"), ind_note_line}

SanitizeFiles ==
    {NoFile} \cup {FileOf(ls) : ls \in UNION {[1..n -> SanitizeLines] : n \in 0..MaxLen}}

\* sanitize_file
call_sanitize(fs) ==
    LET lines == read_authorize_file(fs.target)
        sanitized == sanitize_lines(lines)
    IN IF sanitized # lines
       THEN Outcome(write_ok(fs, as_elements(sanitized)), "true", None, None, <<>>, TRUE)
       ELSE Outcome(fs, "false", None, None, <<>>, FALSE)

SanitizeFile ==
    /\ Len(hist) <= 1
    /\ Returns(call_sanitize(Fs), "sanitize", None, NoInput)
    /\ Unused

InitSanitize ==
    /\ file \in SanitizeFiles
    /\ tmp = NoFile
    /\ hist = <<>>
    /\ lock = Unlocked
    /\ th = <<>>
    /\ calls = NoCalls
    /\ w = Idle

NextSanitize == SanitizeFile

SpecSanitize == InitSanitize /\ [][NextSanitize]_vars

----------------------------------------------------------------------------
(* update_user_password and delete_user on files in which blocks carry     *)
(* continuation lines that are whitespace only or an indented comment, and *)
(* in which a user has several blocks: one call on any such file.          *)

\* lines of the files: headers of the two users, a whitespace-only line and
\* an indented comment
FrameLines == {hdr_line(u, "H0") : u \in Users} \cup {ws_line, ind_note_line}

FrameFiles ==
    {FileOf(ls) : ls \in UNION {[1..n -> FrameLines] : n \in 0..(MaxLen + 1)}}

InitFrame ==
    /\ file \in FrameFiles
    /\ tmp = NoFile
    /\ hist = <<>>
    /\ lock = Unlocked
    /\ th = <<>>
    /\ calls = NoCalls
    /\ w = Idle

NextFrame ==
    \/ \E u \in Users, a \in UpdateInputs : UpdateUserPassword(u, a)
    \/ \E u \in Users : DeleteUser(u)

SpecFrame == InitFrame /\ [][NextFrame]_vars

----------------------------------------------------------------------------
(* The password generator.  A character stands for the characters of its  *)
(* class that the generator treats alike: each class has members that      *)
(* EXCLUDED_CHARS names and members it does not name.  hist holds the call *)
(* made: the length asked for and the password returned.                   *)

\* longest password asked for
MaxPasswordLen == 5
\* the characters chosen before the loop, one of each class
NumClasses == 4

\* string.ascii_lowercase, string.ascii_uppercase, string.digits, "!@#$%^&*"
Lowercase == {"a", "l"}
Uppercase == {"A", "O", "I"}
Digits == {"2", "0", "1"}
Symbols == {"!", "*"}

CHARSET == Lowercase \cup Uppercase \cup Digits \cup Symbols
EXCLUDED_CHARS == {"0", "O", "1", "l", "I"}
\* the characters of CHARSET that are not in EXCLUDED_CHARS
charset == {c \in CHARSET : c \notin EXCLUDED_CHARS}

\* a generator whose fourth first character is a letter
first_chars_no_symbol == Lowercase \X Uppercase \X Digits \X Lowercase
\* the choices of the four characters that open password_chars
first_chars == Lowercase \X Uppercase \X Digits \X Symbols

\* the orders SystemRandom().shuffle can leave n characters in
shuffles(n) == Permutations(1..n)

\* the passwords generate_password(length) can return
generate_password(length) ==
    LET extra == IF length > NumClasses THEN length - NumClasses ELSE 0
        n == NumClasses + extra
    IN {[i \in 1..n |-> (first \o rest)[p[i]]] :
            first \in first_chars, rest \in [1..extra -> charset], p \in shuffles(n)}

GeneratePassword(length) ==
    /\ hist = <<>>
    /\ \E password \in generate_password(length) :
           hist' = <<[op |-> "generate_password", length |-> length, password |-> password]>>
    /\ UNCHANGED <<file, tmp>>
    /\ Unused

InitPassword ==
    /\ file = NoFile
    /\ tmp = NoFile
    /\ hist = <<>>
    /\ lock = Unlocked
    /\ th = <<>>
    /\ calls = NoCalls
    /\ w = Idle

NextPassword == \E length \in NumClasses..MaxPasswordLen : GeneratePassword(length)

SpecPassword == InitPassword /\ [][NextPassword]_vars

----------------------------------------------------------------------------
(* Two writers on one authorize file that no lock keeps apart.  The first  *)
(* is a thread in add_user, update_user_password or delete_user.  The      *)
(* second is a thread of the same process in sanitize_file, which takes no *)
(* lock (lines 169-179), or a thread of a second process that has a        *)
(* RadiusManager of its own on the same path, with a lock of its own.      *)
(* Every write goes through the one name authorize.tmp (line 73).  An open *)
(* file follows its inode: once the other writer has renamed the temporary *)
(* file, a handle opened on it writes into the target.  The lines of a     *)
(* write are buffered and reach the file in one piece, at the position 0   *)
(* of the handle, when the with block closes it; a line stands for a unit  *)
(* of the file.  The file system raises no error of its own here.          *)

Writers == {1, 2}
Procs == {1, 2}

\* the files the two writers start from: blocks of a user, blank lines and
\* attribute lines, in any order
SharedStartFiles ==
    {NoFile} \cup {FileOf(ls) : ls \in UNION {[1..n -> {hdr_line("al", "H0"), blank_line,
                                                        reply_line("al")}] : n \in 0..MaxLen}}

\* one write() of the buffered lines at position 0 of a file that holds old
overwrite(old, new) == new \o SubSeq(old, Len(new) + 1, Len(old))

\* the close of the with block (lines 76-77) flushes the lines through the
\* handle, to wherever its inode is now
write_through(fs, handle, elems) ==
    CASE handle = "temp" -> [fs EXCEPT !.temp = FileOf(overwrite(fs.temp.ls, writelines(elems)))]
      [] handle = "target" ->
             [fs EXCEPT !.target = FileOf(overwrite(fs.target.ls, writelines(elems)))]
      [] OTHER -> fs

\* where an open handle points once the temporary file was renamed over
\* the target
after_replace(handle) ==
    CASE handle = "temp" -> "target"
      [] handle = "target" -> "unlinked"
      [] OTHER -> handle

WriterIdle ==
    [pc |-> "idle", proc |-> 0, op |-> None, user |-> None, elems |-> <<>>, kind |-> None,
     handle |-> None, put |-> NoFile]

\* a writer calls an operation of the RadiusManager of process p;
\* sanitize_file starts reading at once, the others take the lock first
SCall(x, p, op, username) ==
    /\ th[x].pc = "idle"
    /\ th' = [th EXCEPT ![x] = [WriterIdle EXCEPT
                                  !.pc = IF op = "sanitize" THEN "edit" ELSE "lock",
                                  !.proc = p, !.op = op, !.user = username]]
    /\ UNCHANGED <<file, tmp, hist, lock, calls, w>>

\* with self._lock: of add_user, update_user_password, delete_user
SLock(x) ==
    /\ th[x].pc = "lock"
    /\ can_acquire(lock[th[x].proc], x)
    /\ lock' = [lock EXCEPT ![th[x].proc] = acquire(@, x)]
    /\ th' = [th EXCEPT ![x].pc = "check"]
    /\ UNCHANGED <<file, tmp, hist, calls, w>>

\* the nested get_user (lines 346, 399, 466): it takes the lock again,
\* reads and leaves its with block; the caller raises or returns at once,
\* or goes on to its edit
SCheck(x) ==
    /\ th[x].pc = "check"
    /\ can_acquire(lock[th[x].proc], x)
    /\ LET found == ~get_user(file, th[x].user).empty
       IN th' = [th EXCEPT
                   ![x].pc = IF (th[x].op = "add") = found THEN "unlock" ELSE "edit",
                   ![x].kind = IF th[x].op = "add" /\ found THEN "duplicate"
                               ELSE IF th[x].op = "update" /\ ~found THEN "not_found"
                               ELSE IF th[x].op = "delete" /\ ~found THEN "false"
                               ELSE None]
    /\ UNCHANGED <<file, tmp, hist, lock, calls, w>>

\* the read of the file, sanitize and edit; sanitize_file returns False
\* when the sanitized lines are the lines read, delete_user when it finds
\* no block
SEdit(x) ==
    /\ th[x].pc = "edit"
    /\ LET op == th[x].op
           lines == read_authorize_file(file)
           c == IF op = "add" THEN add_credentials(None, None, gen_of(x))
                ELSE update_credentials(None, gen_of(x))
           nothing ==
               \/ op = "sanitize" /\ sanitize_lines(lines) = lines
               \/ op = "delete" /\ find_user_blocks(sanitize_lines(lines), th[x].user) = <<>>
       IN th' = IF nothing
                THEN [th EXCEPT ![x].pc = "unlock", ![x].kind = "false"]
                ELSE [th EXCEPT
                        ![x].pc = "open",
                        ![x].elems =
                            CASE op = "sanitize" -> as_elements(sanitize_lines(lines))
                              [] op = "add" -> add_lines(file, th[x].user, c.nt_hash)
                              [] op = "update" -> update_lines(file, th[x].user, c.nt_hash)
                              [] op = "delete" -> delete_lines(file, th[x].user)]
    /\ UNCHANGED <<file, tmp, hist, lock, calls, w>>

\* open(temp_file, 'w'): authorize.tmp is created, or truncated when it is
\* there, whoever wrote it
SOpen(x) ==
    /\ th[x].pc = "open"
    /\ Becomes(open_temp(Fs))
    /\ th' = [th EXCEPT ![x].pc = "write", ![x].handle = "temp"]
    /\ UNCHANGED <<hist, lock, calls, w>>

\* tmpf.writelines(lines) and the end of the with block
SWrite(x) ==
    /\ th[x].pc = "write"
    /\ Becomes(write_through(Fs, th[x].handle, th[x].elems))
    /\ th' = [th EXCEPT ![x].pc = "replace", ![x].handle = None]
    /\ UNCHANGED <<hist, lock, calls, w>>

\* temp_file.replace(self.authorize_file_path): whatever authorize.tmp
\* holds becomes the target; put is the target the rename left
SReplace(x) ==
    /\ th[x].pc = "replace"
    /\ tmp.ex
    /\ Becomes(replace(Fs))
    /\ th' = [y \in Writers |->
                IF y = x
                THEN [th[y] EXCEPT !.pc = "unlock", !.put = replace(Fs).target,
                                   !.kind = IF th[y].op \in {"delete", "sanitize"}
                                            THEN "true" ELSE "ok"]
                ELSE [th[y] EXCEPT !.handle = after_replace(@)]]
    /\ UNCHANGED <<hist, lock, calls, w>>

\* temp_file.replace finds no authorize.tmp: FileNotFoundError, an OSError
\* whose errno is not EBUSY; there is nothing to unlink (line 116) and the
\* exception goes up
SReplaceFails(x) ==
    /\ th[x].pc = "replace"
    /\ ~tmp.ex
    /\ th' = [th EXCEPT ![x].pc = "unlock", ![x].kind = "io_error"]
    /\ UNCHANGED <<file, tmp, hist, lock, calls, w>>

\* the call returns or raises; the with block of a locked call is left
SReturn(x) ==
    /\ th[x].pc = "unlock"
    /\ lock' = IF th[x].op = "sanitize" THEN lock
               ELSE [lock EXCEPT ![th[x].proc] = release(@)]
    /\ th' = [th EXCEPT ![x].pc = "done"]
    /\ UNCHANGED <<file, tmp, hist, calls, w>>

InitShared ==
    /\ file \in SharedStartFiles
    /\ tmp = NoFile
    /\ hist = <<>>
    /\ lock = [p \in Procs |-> Unlocked]
    /\ th = [x \in Writers |-> WriterIdle]
    /\ calls = NoCalls
    /\ w = Idle

NextShared ==
    \/ \E u \in Users, op \in {"add", "update", "delete"} : SCall(1, 1, op, u)
    \/ SCall(2, 1, "sanitize", None)
    \/ \E u \in Users, op \in {"add", "update", "delete"} : SCall(2, 2, op, u)
    \/ \E x \in Writers : SLock(x)
    \/ \E x \in Writers : SCheck(x)
    \/ \E x \in Writers : SEdit(x)
    \/ \E x \in Writers : SOpen(x)
    \/ \E x \in Writers : SWrite(x)
    \/ \E x \in Writers : SReplace(x)
    \/ \E x \in Writers : SReplaceFails(x)
    \/ \E x \in Writers : SReturn(x)

SpecShared == InitShared /\ [][NextShared]_vars

----------------------------------------------------------------------------
(* Vocabulary of the properties *)

\* lines of f that are a header of the user (the lines _find_user_blocks
\* starts a block at)
HeaderLines(f, username) ==
    {i \in 1..Len(f.ls) : pattern_match(f.ls[i], username)}
\* a header line of any user: at column 0, not blank, not a comment
IsHeader(line) == ~line.ind /\ line.toks # <<>> /\ ~starts_hash(line)
\* the records list_users finds for the user
RecordsOf(f, username) ==
    LET entries == list_users(f) IN {i \in 1..Len(entries) : entries[i].username = username}
NtPassword(h) == [name |-> "NT-Password", value |-> <<h>>]
\* the file after the k-th recorded call
After(k) == IF k = Len(hist) THEN file ELSE hist[k + 1].before
\* a blank line as _sanitize_lines tests it: not indented, empty once stripped
unindented_blank(line) == ~starts_indented(line) /\ is_empty(strip(line))
\* a blank line as a reader sees it: empty once stripped, indented or not
blank_after_strip(line) == is_empty(strip(line))
\* two consecutive lines of ls are both unindented blank lines
DoubleBlank(ls) ==
    \E i \in 1..(Len(ls) - 1) : unindented_blank(ls[i]) /\ unindented_blank(ls[i + 1])
\* two consecutive lines of ls are both empty once stripped
DoubleBlankStripped(ls) ==
    \E i \in 1..(Len(ls) - 1) : blank_after_strip(ls[i]) /\ blank_after_strip(ls[i + 1])

----------------------------------------------------------------------------
(* Properties of the sequential store *)

\* C1 as stated: add(u) called twice in a row on a file in which get(u)
\* finds nothing, the credential generator working: the first call returns
\* credentials, the second raises the duplicate error and writes nothing,
\* and the file then holds exactly one header line of u.
C1_AddTwice_AsStated ==
    ( /\ Len(hist) = 2 /\ hist[2].op = "add"
      /\ hist[1].kind # "generator_error"
      /\ get_user(hist[1].before, hist[1].user).empty ) =>
        /\ hist[1].kind = "ok"
        /\ hist[2].kind = "duplicate"
        /\ ~hist[2].wrote
        /\ file = hist[2].before
        /\ Cardinality(HeaderLines(file, hist[1].user)) = 1

\* C1, amended: add(u) called twice in a row on a file that holds no header
\* line of u, of any length, the credential generator working: the first
\* call returns credentials, the second raises the duplicate error and
\* writes nothing, and the file then holds exactly one header line of u.
C1_AddTwice ==
    ( /\ Len(hist) = 2 /\ hist[2].op = "add"
      /\ hist[1].kind # "generator_error"
      /\ HeaderLines(hist[1].before, hist[1].user) = {} ) =>
        /\ hist[1].kind = "ok"
        /\ hist[2].kind = "duplicate"
        /\ ~hist[2].wrote
        /\ file = hist[2].before
        /\ Cardinality(HeaderLines(file, hist[1].user)) = 1

\* two adds in a row of a name the file did not hold, next to another
\* user's block, the second with other arguments than the first
C1_Witness ==
    /\ Len(hist) = 2 /\ hist[2].op = "add"
    /\ HeaderLines(hist[1].before, hist[1].user) = {}
    /\ \E v \in Users \ {hist[1].user} : HeaderLines(hist[1].before, v) # {}
    /\ hist[1].kind = "ok" /\ hist[2].kind = "duplicate"
    /\ hist[1].before # file


\* C2: round trip.  Whenever add(u) returns (s, h), whatever the file held,
\* the get(u) that follows returns a record of u whose NT-Password is h.
C2_RoundTrip ==
    \A k \in 1..Len(hist) :
        hist[k].op = "add" /\ hist[k].kind = "ok" =>
            LET r == get_user(After(k), hist[k].user) IN
            /\ ~r.empty
            /\ r.username = hist[k].user
            /\ {a \in r.attributes : a.name = "NT-Password"} = {NtPassword(hist[k].nt_hash)}

\* an add that returned on a file that already held another user's block
C2_Witness ==
    \E k \in 1..Len(hist) :
        /\ hist[k].op = "add" /\ hist[k].kind = "ok"
        /\ \E v \in Users \ {hist[k].user} : HeaderLines(hist[k].before, v) # {}

\* C3: update replaces.  After update_secret(u) returns (s', h') on a file in
\* which get(u) finds u, the file holds exactly one header line of u, list()
\* holds exactly one record of u, its NT-Password is h', and no header line
\* follows that of u.
C3_UpdateReplaces ==
    \A k \in 1..Len(hist) :
        hist[k].op = "update" /\ hist[k].kind = "ok" =>
            LET f == After(k)
                u == hist[k].user
            IN /\ Cardinality(HeaderLines(f, u)) = 1
               /\ Cardinality(RecordsOf(f, u)) = 1
               /\ \A i \in RecordsOf(f, u) :
                      {a \in list_users(f)[i].attributes : a.name = "NT-Password"}
                          = {NtPassword(hist[k].nt_hash)}
               /\ \A i \in HeaderLines(f, u) :
                      \A j \in (i + 1)..Len(f.ls) : ~IsHeader(f.ls[j])

\* an update that returned on a file that held two header lines of the user
C3_Witness ==
    \E k \in 1..Len(hist) :
        /\ hist[k].op = "update" /\ hist[k].kind = "ok"
        /\ Cardinality(HeaderLines(hist[k].before, hist[k].user)) >= 2

\* C4 as stated: on every file that holds a header line of u, delete(u)
\* returns true, leaves no header line of u, and get(u) then finds nothing.
C4_DeleteAll_AsStated ==
    \A k \in 1..Len(hist) :
        hist[k].op = "delete" /\ HeaderLines(hist[k].before, hist[k].user) # {} =>
            /\ hist[k].kind = "true"
            /\ HeaderLines(After(k), hist[k].user) = {}
            /\ get_user(After(k), hist[k].user).empty

\* C4, amended: on every file in which get(u) finds u (one of u's header
\* lines has three or more tokens), delete(u) returns true, leaves no header
\* line of u, whatever its length, and get(u) then finds nothing.
C4_DeleteAll ==
    \A k \in 1..Len(hist) :
        hist[k].op = "delete" /\ ~get_user(hist[k].before, hist[k].user).empty =>
            /\ hist[k].kind = "true"
            /\ HeaderLines(After(k), hist[k].user) = {}
            /\ get_user(After(k), hist[k].user).empty

\* a delete on a file that held two header lines of the user with another
\* user's header between them
C4_Witness ==
    \E k \in 1..Len(hist) :
        /\ hist[k].op = "delete" /\ hist[k].kind = "true"
        /\ \E i, j \in HeaderLines(hist[k].before, hist[k].user) :
               \E m \in (i + 1)..(j - 1) :
                   IsHeader(hist[k].before.ls[m]) /\ m \notin HeaderLines(hist[k].before, hist[k].user)

\* C11: after every add, update or delete that returned, on any starting
\* file, the file written holds no two consecutive blank lines and is its
\* own sanitization.
C11_OutputSanitized ==
    \A k \in 1..Len(hist) :
        hist[k].op \in {"add", "update", "delete"} /\ hist[k].kind \in {"ok", "true"} =>
            /\ ~DoubleBlank(After(k).ls)
            /\ sanitize_lines(After(k).ls) = After(k).ls

\* the NT-Password values of the record get(u) finds in f
StoredHash(f, username) ==
    {a.value : a \in {b \in get_user(f, username).attributes : b.name = "NT-Password"}}

\* C17: add generates only what the caller left out.  After an add that
\* returned: when a hash h was given, with or without a secret, the hash
\* returned and the hash stored for u are h; when only a secret s was
\* given, the secret returned is s and the hash returned and stored is
\* generate_nt_hash(s).
C17_SuppliedKept ==
    \A k \in 1..Len(hist) :
        hist[k].op = "add" /\ hist[k].kind = "ok" =>
            LET a == hist[k].args IN
            /\ a.nt_hash # None =>
                   /\ hist[k].nt_hash = a.nt_hash
                   /\ StoredHash(After(k), hist[k].user) = {<<a.nt_hash>>}
            /\ a.password # None /\ a.nt_hash = None =>
                   /\ hist[k].password = a.password
                   /\ hist[k].nt_hash = generate_nt_hash(a.password)
                   /\ StoredHash(After(k), hist[k].user) = {<<generate_nt_hash(a.password)>>}

\* the number of indented lines that follow line i (counted from 0) at once
Continuations(lines, i) ==
    CHOOSE n \in 0..(Len(lines) - (i + 1)) :
        /\ \A m \in 1..n : starts_indented(lines[i + 1 + m])
        /\ i + 1 + n = Len(lines) \/ ~starts_indented(lines[i + 2 + n])

\* C18: parsing a header absorbs its block.  In the file a list() read,
\* for a header at index i with three or more tokens, followed by n >= 0
\* indented lines, _parse_user_entry returns next index i + 1 + n, and the
\* record list() returned for it has the range i..i+n and the Reply-Message
\* of an indented Reply-Message line of the block; and get(u) after an
\* add(u) that returned has Reply-Message "Welcome u".
C18_BlockAbsorbed ==
    \A k \in 1..Len(hist) :
        /\ hist[k].op = "list" =>
               LET lines == read_authorize_file(hist[k].before) IN
               /\ \A i \in 0..(Len(lines) - 1) :
                      IsHeader(lines[i + 1]) /\ Len(split(lines[i + 1])) >= 3 =>
                          parse_user_entry(lines, i).next = i + 1 + Continuations(lines, i)
               /\ \A j \in 1..Len(hist[k].entries) :
                      LET e == hist[k].entries[j]
                          n == Continuations(lines, e.line_start)
                      IN /\ e.line_end = e.line_start + n
                         /\ \A m \in 1..n :
                                contains_word(lines[e.line_start + 1 + m], "Reply-Message") =>
                                    \E a \in e.attributes : a.name = "Reply-Message"
        /\ hist[k].op = "add" /\ hist[k].kind = "ok" =>
               [name |-> "Reply-Message", value |-> <<"Welcome", hist[k].user>>]
                   \in get_user(After(k), hist[k].user).attributes

\* the results of a call that ends before its write
EndsEarly == {"not_found", "false", "duplicate", "generator_error"}

\* C19: a call that fails before its write leaves the file as it was.
\* update(u) without u raises not-found, delete(u) without u returns false,
\* add(u) with u present raises duplicate, add and update whose credential
\* generation raises pass the error on; in each case nothing is written and
\* the file, sanitized or not, is the file of before the call.
C19_EarlyFailureNoWrite ==
    \A k \in 1..Len(hist) :
        LET absent == get_user(hist[k].before, hist[k].user).empty
            a == hist[k].args
        IN /\ hist[k].op = "update" /\ absent => hist[k].kind = "not_found"
           /\ hist[k].op = "delete" /\ absent => hist[k].kind = "false"
           /\ hist[k].op = "add" /\ ~absent => hist[k].kind = "duplicate"
           /\ hist[k].op = "update" /\ ~absent /\ a.gen = Raises =>
                  hist[k].kind = "generator_error"
           /\ ( /\ hist[k].op = "add" /\ absent /\ a.gen = Raises
                /\ a.password = None \/ a.nt_hash = None )
                  => hist[k].kind = "generator_error"
           /\ hist[k].kind \in EndsEarly =>
                  /\ ~hist[k].wrote
                  /\ After(k) = hist[k].before
                  /\ k = Len(hist) => ~tmp.ex

\* an update of an absent user, or a call whose credential generation
\* raised, on a file that sanitize would change
C19_Witness ==
    /\ Len(hist) = 1
    /\ hist[1].kind \in {"not_found", "generator_error"}
    /\ hist[1].before.ex
    /\ sanitize_lines(hist[1].before.ls) # hist[1].before.ls
    /\ file = hist[1].before

\* C20: get(u) and list() are read-only.  On every file, sanitized or not,
\* present or absent, they write nothing: the file after the call is the
\* file of before, an absent file stays absent, and no temporary file
\* exists.
C20_ReadOnly ==
    \A k \in 1..Len(hist) :
        hist[k].op \in {"get", "list"} =>
            /\ ~hist[k].wrote
            /\ After(k) = hist[k].before
            /\ k = Len(hist) => ~tmp.ex

\* a list that returned a record from a file that sanitize would change
C20_Witness ==
    /\ Len(hist) = 1 /\ hist[1].op = "list"
    /\ hist[1].entries # <<>>
    /\ sanitize_lines(hist[1].before.ls) # hist[1].before.ls
    /\ file = hist[1].before

\* a line that is no record: blank, comment, indented, or a header of
\* fewer than three words
NoRecordLine(line) ==
    \/ starts_indented(line)
    \/ is_empty(strip(line))
    \/ starts_hash(strip(line))
    \/ Len(split(strip(line))) < 3

\* the positions, from 0, of the lines of ls that are not NoRecordLine
RECURSIVE RecordLines(_, _)
RecordLines(ls, i) ==
    IF i >= Len(ls) THEN <<>>
    ELSE (IF NoRecordLine(ls[i + 1]) THEN <<>> ELSE <<i>>) \o RecordLines(ls, i + 1)

\* C23: on every file and at every index below the number of lines,
\* _parse_user_entry returns a next index above the index; on a blank, a
\* comment, an indented line and a header of fewer than three words it
\* gives no record and the index plus one; get_user and list_users return
\* without raising, and list_users returns one record for each header of
\* three words or more, in the order of the file, with the first word as
\* the username.
C23_TolerantParsing ==
    /\ LET lines == read_authorize_file(file) IN
       \A i \in 0..(Len(lines) - 1) :
           LET p == parse_user_entry(lines, i) IN
           /\ p.next > i
           /\ NoRecordLine(lines[i + 1]) => p.info.empty /\ p.next = i + 1
           /\ ~NoRecordLine(lines[i + 1]) => ~p.info.empty /\ p.info.line_start = i
    /\ \A k \in 1..Len(hist) :
           /\ hist[k].op = "get" => hist[k].kind \in {"found", "none"}
           /\ hist[k].op = "list" =>
                  LET lines == read_authorize_file(hist[k].before)
                      at == RecordLines(lines, 0)
                  IN /\ hist[k].kind = "entries"
                     /\ Len(hist[k].entries) = Len(at)
                     /\ \A n \in 1..Len(at) :
                            /\ hist[k].entries[n].line_start = at[n]
                            /\ hist[k].entries[n].username = split(strip(lines[at[n] + 1]))[1].w

\* list_users has passed over a short header, an indented line and a
\* comment and has returned the one record that follows them
C23_Witness ==
    /\ Len(hist) = 1 /\ hist[1].op = "list"
    /\ hist[1].before.ex
    /\ hist[1].before.ls = <<short_hdr("al"), ind_note_line, hdr_line("alice", "H0")>>
    /\ Len(hist[1].entries) = 1
    /\ hist[1].entries[1].username = "alice"

\* C24: on an absent authorize file get_user returns None, list_users
\* returns no record, delete_user returns False and update_user_password
\* raises "not found", each leaving the file absent; add_user, the
\* credential generator working, returns credentials and creates the file,
\* which then holds one header line, that of the user, and one record.
C24_AbsentFile ==
    \A k \in 1..Len(hist) :
        ~hist[k].before.ex =>
            /\ hist[k].op = "get" => hist[k].kind = "none" /\ ~After(k).ex
            /\ hist[k].op = "list" => hist[k].entries = <<>> /\ ~After(k).ex
            /\ hist[k].op = "delete" => hist[k].kind = "false" /\ ~After(k).ex
            /\ hist[k].op = "update" => hist[k].kind = "not_found" /\ ~After(k).ex
            /\ hist[k].op = "add" /\ hist[k].kind # "generator_error" =>
                   /\ hist[k].kind = "ok"
                   /\ After(k).ex
                   /\ Cardinality(HeaderLines(After(k), hist[k].user)) = 1
                   /\ Cardinality({i \in 1..Len(After(k).ls) : IsHeader(After(k).ls[i])}) = 1
                   /\ Len(list_users(After(k))) = 1
                   /\ ~get_user(After(k), hist[k].user).empty
            /\ k = Len(hist) => ~tmp.ex

\* add_user has created the authorize file
C24_Witness ==
    /\ Len(hist) = 1 /\ hist[1].op = "add" /\ hist[1].kind = "ok"
    /\ ~hist[1].before.ex
    /\ file.ex /\ file.ls # <<>>

\* the lines of the blocks of a user, header and continuation lines, in
\* file order
RECURSIVE BlockLines(_, _)
BlockLines(ls, blocks) ==
    IF blocks = <<>> THEN <<>>
    ELSE SubSeq(ls, Head(blocks)[1] + 1, Head(blocks)[2]) \o BlockLines(ls, Tail(blocks))

BlocksOf(f, username) == BlockLines(f.ls, find_user_blocks(f.ls, username))

\* C26: delete_user(u) and update_user_password(u) that go through leave
\* the blocks of every other user as they were: the header lines and the
\* continuation lines of the blocks of v, for every v other than u, a
\* prefix or an extension of u included, are the same lines in the same
\* order before and after the call.
C26_OthersIntact ==
    \A k \in 1..Len(hist) :
        hist[k].op \in {"update", "delete"} /\ hist[k].kind \in {"ok", "true"} =>
            \A v \in Users \ {hist[k].user} :
                BlocksOf(After(k), v) = BlocksOf(hist[k].before, v)

----------------------------------------------------------------------------
(* Properties of the sanitizer *)

\* the line sequence the k-th sanitize_file read
Input(k) == read_authorize_file(hist[k].before)

\* C12: sanitize is idempotent.  For every line sequence L,
\* sanitize(sanitize(L)) = sanitize(L); the file sanitize_file leaves is
\* sanitize(L), and a second sanitize_file finds nothing to rewrite.
C12_Idempotent ==
    \A k \in 1..Len(hist) :
        /\ sanitize_lines(sanitize_lines(Input(k))) = sanitize_lines(Input(k))
        /\ read_authorize_file(After(k)) = sanitize_lines(Input(k))
        /\ k = 2 => hist[k].kind = "false" /\ After(k) = hist[k].before

\* the sanitizer dropped an orphan line and a blank line of a run, kept a
\* block, and the second pass left the file as it was
C12_Witness ==
    /\ Len(hist) = 2
    /\ hist[1].kind = "true" /\ hist[2].kind = "false"
    /\ Len(file.ls) = Len(hist[1].before.ls) - 1
    /\ \E i \in 1..Len(file.ls) : starts_indented(file.ls[i])
    /\ starts_indented(hist[1].before.ls[1]) \/ DoubleBlank(hist[1].before.ls)

\* C13: no orphan.  For every line sequence L, every indented line of
\* sanitize(L) follows, across indented lines only, a line that is not
\* indented, not blank and not a comment: the nearest line above it that is
\* not indented exists and is a header.
C13_NoOrphan ==
    \A k \in 1..Len(hist) :
        LET out == read_authorize_file(After(k)) IN
        \A i \in 1..Len(out) :
            out[i].ind =>
                \E j \in 1..(i - 1) :
                    /\ ~out[j].ind /\ out[j].toks # <<>> /\ out[j].toks[1] # Word("#")
                    /\ \A m \in (j + 1)..(i - 1) : out[m].ind

\* an input with an indented line under a comment or a blank line, or at
\* the top, and another under a header: the output kept only the latter
C13_Witness ==
    /\ Len(hist) >= 1 /\ hist[1].kind = "true"
    /\ LET L == Input(1) IN
       /\ starts_indented(L[1]) \/ \E i \in 2..Len(L) :
              starts_indented(L[i]) /\ ~starts_indented(L[i - 1]) /\ ~IsHeader(L[i - 1])
       /\ \E i \in 2..Len(L) : starts_indented(L[i]) /\ IsHeader(L[i - 1])
    /\ \E i \in 1..Len(file.ls) : starts_indented(file.ls[i])

\* C14: no double blank.  For every line sequence L, sanitize(L) holds no
\* two consecutive lines that are empty once stripped, lines of spaces or
\* tabs only included.
C14_NoDoubleBlank ==
    \A k \in 1..Len(hist) : ~DoubleBlankStripped(read_authorize_file(After(k)))

\* a is b with some of its lines left out
RECURSIVE IsSubsequence(_, _)
IsSubsequence(a, b) ==
    IF a = <<>> THEN TRUE
    ELSE IF b = <<>> THEN FALSE
    ELSE IF Head(a) = Head(b) THEN IsSubsequence(Tail(a), Tail(b))
    ELSE IsSubsequence(a, Tail(b))

\* the lines of ls at column 0 that are not blank: headers and comments
Unindented(ls) == SelectSeq(ls, LAMBDA raw : ~unindented_blank(raw) /\ ~starts_indented(raw))

\* what list_users tells of a file: the usernames and their secret
\* attributes, in order
Parsed(f) ==
    LET entries == list_users(f)
    IN [i \in 1..Len(entries) |-> <<entries[i].username, entries[i].attributes>>]

\* C28: for every line sequence L, sanitize(L) is L with some lines left
\* out, none changed and none added; it keeps every line at column 0 that
\* is not blank, headers and comments alike; and list_users reads the same
\* usernames and secret attributes from the sanitized file as from L.
C28_OnlyDrops ==
    \A k \in 1..Len(hist) :
        LET out == sanitize_lines(Input(k)) IN
        /\ IsSubsequence(out, Input(k))
        /\ Unindented(out) = Unindented(Input(k))
        /\ read_authorize_file(After(k)) = out
        /\ Parsed(After(k)) = Parsed(hist[k].before)

\* the sanitizer dropped an orphan line at the top and kept the comment
\* and the block below it, and list_users reads the block as before
C28_Witness ==
    /\ Len(hist) >= 1 /\ hist[1].kind = "true"
    /\ hist[1].before.ls = <<reply_line("al"), note_line, hdr_line("al", "H0")>>
    /\ After(1).ls = <<note_line, hdr_line("al", "H0")>>
    /\ Len(Parsed(After(1))) = 1

----------------------------------------------------------------------------
(* Properties of the password generator *)

\* the characters of a password
Chars(password) == {password[i] : i \in 1..Len(password)}

\* C15: for every length n >= 4, every password generate_password(n) can
\* return has n characters, among them a lowercase letter, an uppercase
\* letter, a digit and a symbol of !@#$%^&*.
C15_Composition ==
    \A k \in 1..Len(hist) :
        hist[k].op = "generate_password" =>
            /\ Len(hist[k].password) = hist[k].length
            /\ Chars(hist[k].password) \cap {"a", "l"} # {}
            /\ Chars(hist[k].password) \cap {"A", "O", "I"} # {}
            /\ Chars(hist[k].password) \cap {"2", "0", "1"} # {}
            /\ Chars(hist[k].password) \cap {"!", "*"} # {}

\* a password longer than four characters whose last character is the only
\* symbol and whose first is a digit: the shuffle moved the class characters
C15_Witness ==
    /\ Len(hist) = 1 /\ hist[1].op = "generate_password"
    /\ hist[1].length > 4
    /\ hist[1].password[1] = "2"
    /\ hist[1].password[Len(hist[1].password)] = "!"
    /\ \A i \in 1..(Len(hist[1].password) - 1) : hist[1].password[i] \notin {"!", "*"}

\* C16: for every length n >= 4, no password generate_password(n) can
\* return holds any of the characters 0, O, 1, l, I, at any position.
C16_NoAmbiguous ==
    \A k \in 1..Len(hist) :
        hist[k].op = "generate_password" =>
            Chars(hist[k].password) \cap {"0", "O", "1", "l", "I"} = {}

----------------------------------------------------------------------------
(* Properties of the store under threads *)

\* the thread is inside the with block of a public call
InCriticalSection(t) ==
    th[t].pc \in {"read", "check", "check_read", "edit", "write", "unlock"}

\* the call of the thread, made alone on the file the thread found when it
\* took the lock
Alone(t) == call([target |-> th[t].snap, temp |-> NoFile], th[t].op, th[t].user, InputOf(t))

\* C5: from an absent or an empty file, whatever add, update and delete
\* calls the threads make and however they interleave, no username ever has
\* two header lines in the file.
C5_AtMostOneBlock ==
    \A u \in Users : Cardinality(HeaderLines(file, u)) <= 1

\* both users are in the file, one of them after an update: the update left
\* its comment line and one header line for each
C5_Witness ==
    /\ \A u \in Users : Cardinality(HeaderLines(file, u)) = 1
    /\ \E i \in 1..Len(file.ls) : file.ls[i] = updated_line
    /\ calls.ended >= 3

\* C6: serialization.  At most one thread is inside a critical section; the
\* file does not change between the moment a call takes the lock and its
\* own write; and when a call leaves, the file and the call's result are
\* those of the same call made alone on the file the previous call left, so
\* that the calls, in the order they took the lock, are a sequential
\* execution.  A call whose write failed leaves the file as it found it.
C6_Serialized ==
    /\ \A t1, t2 \in Threads :
           InCriticalSection(t1) /\ InCriticalSection(t2) => t1 = t2
    /\ \A t \in Threads :
           /\ InCriticalSection(t) => lock.owner = t
           /\ InCriticalSection(t) /\ th[t].pc # "unlock" => file = th[t].snap
           /\ th[t].pc = "unlock" =>
                  IF th[t].kind = "io_error"
                  THEN file = th[t].snap /\ Alone(t).wrote
                  ELSE /\ file = Alone(t).fs.target
                       /\ th[t].kind = Alone(t).kind
                       /\ th[t].password = Alone(t).password
                       /\ th[t].nt_hash = Alone(t).nt_hash
                       /\ th[t].entries = Alone(t).entries
                       /\ th[t].wrote = Alone(t).wrote

\* a call has changed the file and is about to leave while another thread,
\* whose call began meanwhile, waits for the lock
C6_Witness ==
    \E t1, t2 \in Threads :
        /\ t1 # t2
        /\ th[t1].pc = "unlock" /\ th[t1].wrote /\ file # th[t1].snap
        /\ th[t2].pc = "lock"
        /\ calls.ended >= 1

\* C7: when the only two calls made are add(u) by two threads, overlapping,
\* on a file without u, and no write fails, then one of them returns
\* credentials, the other raises the duplicate error, and the file holds
\* exactly one header line of u.
C7_OneAddWins ==
    \A t1, t2 \in Threads :
        ( /\ t1 # t2
          /\ calls.started = 2 /\ calls.ended = 2
          /\ th[t1].pc = "returned" /\ th[t1].op = "add" /\ th[t1].overlap
          /\ th[t2].pc = "returned" /\ th[t2].op = "add" /\ th[t2].overlap
          /\ th[t1].user = th[t2].user
          /\ th[t1].kind # "io_error" /\ th[t2].kind # "io_error" )
        => /\ {th[t1].kind, th[t2].kind} = {"ok", "duplicate"}
           /\ Cardinality(HeaderLines(file, th[t1].user)) = 1

\* two overlapping adds of one name, the only calls made, have returned:
\* one with credentials, the other with the duplicate error
C7_Witness ==
    \E t1, t2 \in Threads :
        /\ t1 # t2
        /\ calls.started = 2 /\ calls.ended = 2
        /\ th[t1].pc = "returned" /\ th[t1].op = "add" /\ th[t1].overlap
        /\ th[t2].pc = "returned" /\ th[t2].op = "add" /\ th[t2].overlap
        /\ th[t1].user = th[t2].user
        /\ th[t1].kind = "ok" /\ th[t2].kind = "duplicate"
        /\ calls.last.kind = "duplicate"

\* C25: the nested get_user of add_user, update_user_password and
\* delete_user never waits for the lock; a thread that is not in a call
\* holds no lock, whether its call returned, raised the duplicate or the
\* not-found error, or failed in its write, and with no call under way the
\* hold count is 0; under a fair scheduler every call made returns or
\* raises.
C25_LockLiveness ==
    /\ [](\A t \in Threads :
              /\ th[t].pc = "check" => can_acquire(lock, t) /\ lock.owner = t
              /\ ~Running(t) => lock.owner # t)
    /\ []((\A t \in Threads : ~Running(t)) => lock = Unlocked /\ lock.count = 0)
    /\ \A t \in Threads : Running(t) ~> (th[t].pc = "returned")

\* an add_user has failed in its write and has returned, and the other
\* thread has since taken the lock, and taken it again in its nested
\* get_user
C25_Witness ==
    \E t \in Threads, u \in Threads :
        /\ t # u
        /\ th[t].pc = "returned" /\ th[t].kind = "io_error"
        /\ th[u].pc = "check_read"
        /\ lock = [owner |-> u, count |-> 2]

----------------------------------------------------------------------------
(* Properties of the writer *)

\* a write is under way or has ended
Writing == w.pc # "idle"

\* C8 as stated: at every instant of every write, on every path of the
\* writer, the target file is the complete file of before the write or the
\* complete new file.
C8_AllOrNothing_AsStated ==
    Writing => file \in {w.pre, Written(w.elems)}

\* C8, amended: at every instant of a write that does not take the direct
\* write of the EBUSY fallback, failed and killed writes included, the
\* target file is the complete file of before the write or the complete
\* new file.
C8_AllOrNothing ==
    Writing /\ ~w.fallback => file \in {w.pre, Written(w.elems)}

\* a write has replaced a file by a different one without the fallback
C8_Witness ==
    /\ w.pc = "done" /\ ~w.fallback
    /\ w.pre.ex /\ w.pre.ls # <<>>
    /\ file = Written(w.elems) /\ file # w.pre

\* the statements between the creation of the temporary file and the end
\* of the replace step
TempPhase == {"write_temp", "replace"}

\* C9: while the writer is between the creation of the temporary file and
\* the replace step, and when the process was killed there, the target file
\* is the file of before the write, and the list_users that follows the
\* kill finds the records of before the write.
C9_CrashAtomic ==
    /\ w.pc \in TempPhase => file = w.pre
    /\ w.pc \in {"crashed", "read"} /\ w.at \in TempPhase => file = w.pre
    /\ w.pc = "read" /\ w.at \in TempPhase => w.seen = list_users(w.pre)

\* the process was killed with the temporary file written in part, and the
\* next list_users found the records of before the write
C9_Witness ==
    /\ w.pc = "read" /\ w.at = "write_temp"
    /\ w.n >= 1
    /\ tmp.ex /\ tmp # Written(w.elems)
    /\ w.seen # <<>>

\* C10: whenever the writer ends by raising, at whatever statement the
\* error came, the fallback included, the target file is the file of before
\* the write and no temporary file is left.
C10_RaiseLeavesFile ==
    w.pc = "raised" => file = w.pre /\ ~tmp.ex

\* the direct write of the EBUSY fallback has put every element in the
\* target and the finally clause is about to run
Overwritten == w.pc = "finally" /\ ~w.failed

----------------------------------------------------------------------------
(* Properties of writers that share the file *)

\* the steps of a writer from the creation of authorize.tmp to its rename
OnTemp == {"write", "replace"}

\* a thread in sanitize_file and a thread in a locked call, one process
SanitizeBeside(x, y) ==
    /\ th[x].op = "sanitize" /\ th[y].op \in {"add", "update", "delete"}
    /\ th[x].proc = th[y].proc

\* C21: sanitize_file does its read, sanitize and write under the lock of
\* the store: when it runs beside add_user, update_user_password or
\* delete_user of the same RadiusManager, the two are never both between
\* the creation of the temporary file and its rename, and once both have
\* returned a user whose add_user returned credentials is found by
\* get_user, and a user whose delete_user returned True is not.
C21_SanitizeLocked ==
    \A x \in Writers, y \in Writers :
        SanitizeBeside(x, y) =>
            /\ ~(th[x].pc \in OnTemp /\ th[y].pc \in OnTemp)
            /\ th[x].pc = "done" /\ th[y].pc = "done" /\ th[y].op = "add" /\ th[y].kind = "ok"
                   => ~get_user(file, th[y].user).empty
            /\ th[x].pc = "done" /\ th[y].pc = "done" /\ th[y].op = "delete"
                                 /\ th[y].kind = "true"
                   => get_user(file, th[y].user).empty

\* two writers of two processes: they share the file and no lock
Apart(x, y) == th[x].proc # 0 /\ th[y].proc # 0 /\ th[x].proc # th[y].proc

\* C27: each write has a temporary file of its own: when two processes
\* write the same authorize file, no writer's lines go through its handle
\* into the target, the target left by every rename is the complete new
\* file of one of the two writers, and no write fails for want of its
\* temporary file.
C27_OwnTemporaryFile ==
    \A x \in Writers, y \in Writers :
        Apart(x, y) =>
            /\ th[x].handle # "target"
            /\ th[x].put.ex => th[x].put \in {Written(th[x].elems), Written(th[y].elems)}
            /\ th[x].kind # "io_error"

====
